---- MODULE Spec2Model ----
(***************************************************************************)
(* A model of linux_wrapped (src/src/main.rs): the zsh history decoder     *)
(* ZshHistory::next and the classifier process_command_history.            *)
(*                                                                         *)
(* Bytes are integers 0..255, a Vec<u8> / &[u8] is a sequence of bytes.    *)
(* Option<T> is a record [some |-> BOOLEAN, val |-> T]; an item of the     *)
(* line source (io::Result<Vec<u8>>) is [ok |-> BOOLEAN, bytes |-> ...].   *)
(*                                                                         *)
(* Two specifications:                                                     *)
(*   Spec          the decoder, reading a bounded file to its end;         *)
(*   SpecClassify  the classifier loop over a bounded command history.     *)
(***************************************************************************)
EXTENDS Integers, Sequences, FiniteSets, TLC

\* ------------------------------------------------------------------ bounds
\* Number of raw lines (items of the line source) in the history file.
MaxLines == 2
\* Number of bytes in one raw line.
MaxLineLen == 2
\* Number of logical commands the classifier's history yields.
MaxEntries == 2
\* Number of space-separated tokens in one logical command.
MaxTokens == 3

\* --------------------------------------------------------------- constants
\* b':'  (main.rs:38, main.rs:46)
Colon == 58
\* b';'  (main.rs:41)
Semi == 59
\* b' '  (main.rs:67)
Space == 32
\* b'='  (main.rs:71)
Equals == 61

\* ----------------------------------------------------------------- helpers
None == [some |-> FALSE]
Some(x) == [some |-> TRUE, val |-> x]

Range(s) == {s[i] : i \in 1..Len(s)}

\* Index of the first occurrence of byte b in s at or after position i,
\* or Len(s) + 1 when there is none.
RECURSIVE FindByte(_, _, _)
FindByte(s, b, i) ==
    IF i > Len(s) THEN Len(s) + 1
    ELSE IF s[i] = b THEN i
    ELSE FindByte(s, b, i + 1)

\* slice::split(|x| *x == b): the segments of s between occurrences of b.
\* Always yields at least one segment (the empty slice yields one empty
\* segment); n occurrences of b yield n + 1 segments.
RECURSIVE SplitBytes(_, _)
SplitBytes(s, b) ==
    LET k == FindByte(s, b, 1) IN
    IF k > Len(s) THEN <<s>>
    ELSE <<SubSeq(s, 1, k - 1)>> \o SplitBytes(SubSeq(s, k + 1, Len(s)), b)

\* ------------------------------------------------------------- line source
\* The bytes a raw line of the model may hold: ':', ';' and one other ('a').
LineBytes == {Colon, Semi, 97}

RawLines == UNION {[1..n -> LineBytes] : n \in 0..MaxLineLen}

OkItem(b) == [ok |-> TRUE, bytes |-> b]
\* An item the line source failed to deliver (Err(io::Error)).
ErrItem == [ok |-> FALSE, bytes |-> <<>>]

Items == {OkItem(b) : b \in RawLines} \cup {ErrItem}

\* ---------------------------------------------------------- decoder state
VARIABLES
    lines,      \* the items BufReader::split(b'\n') has yielded so far, in order
    eof,        \* the Split iterator has returned None
    peeked,     \* Peekable's lookahead slot: None, or Some(Option<item>)
    item,       \* next()'s local `item`: the last value of self.lines.next()
    result,     \* next()'s local `result`: the command being accumulated
    from,       \* (history) indices of the raw lines that went into `result`
    out,        \* (history) every Some(result) next() has returned, in order
    pc          \* "start" | "append" | "done" | "panic"

dvars == <<lines, eof, peeked, item, result, from, out, pc>>

\* ------------------------------------------------------- classifier state
VARIABLES
    man_pages,        \* State.man_pages: key (bytes of a String) -> count
    git_subcommands,  \* State.git_subcommands
    commands,         \* State.commands
    entry,            \* the for loop's `entry`: Some(command) inside the body
    n,                \* how many entries the history has yielded
    taken,            \* (history) the path each closure took for the last entry
    counted,          \* (history) how many entries had a valid-UTF-8 command token
    cpc               \* "fetch" | "classify" | "end"

cvars == <<man_pages, git_subcommands, commands, entry, n, taken, counted, cpc>>

vars == <<dvars, cvars>>

\* Split::next on the underlying reader: what it may return now. The file
\* is read as the decoder goes: any item, or None at the end of the file
\* (and None again once it has returned None).
SplitNext ==
    IF eof \/ Len(lines) >= MaxLines THEN {None}
    ELSE {None} \cup {Some(it) : it \in Items}

\* The reader after Split::next returned x.
SplitAdvance(x) ==
    /\ lines' = (IF x.some THEN Append(lines, x.val) ELSE lines)
    /\ eof' = (eof \/ ~x.some)

\* Peekable::next returns x: the lookahead slot's value if the slot is
\* full (the slot is emptied), else the underlying iterator's next.
LinesNext(x) ==
    /\ peeked' = None
    /\ IF peeked.some
       THEN x = peeked.val /\ UNCHANGED <<lines, eof>>
       ELSE x \in SplitNext /\ SplitAdvance(x)

\* Peekable::peek returns x: fills the lookahead slot if it is empty. The
\* slot is left to the caller (peeked'), who may consume x right away.
LinesPeek(x) ==
    IF peeked.some
    THEN x = peeked.val /\ UNCHANGED <<lines, eof>>
    ELSE x \in SplitNext /\ SplitAdvance(x)

\* The values the next call of next() or peek() may return.
Upcoming == IF peeked.some THEN {peeked.val} ELSE SplitNext

\* Index in `lines` of the item the next call of next() or peek() returns.
UpcomingIdx == IF peeked.some THEN Len(lines) ELSE Len(lines) + 1

\* x.first() == Some(b':')  /  next.starts_with(b":")
StartsWithColon(b) == Len(b) > 0 /\ b[1] = Colon

\* The decoder of an earlier variant: a line without a ';' body is itself
\* taken as the command, whatever its first byte.
StartOfEarlier(it) ==
    IF ~it.ok THEN None
    ELSE LET segs == SplitBytes(it.bytes, Semi) IN
         IF Len(segs) >= 2
         THEN (IF StartsWithColon(it.bytes) THEN None ELSE Some(segs[2]))
         ELSE Some(it.bytes)

\* main.rs:37-44: item.transpose().ok().flatten().and_then(|x| ...).
\* An Err item gives None; a line whose first byte is ':' gives None;
\* otherwise the line is split on ';' and the SECOND segment is taken
\* (None when the line holds no ';').
StartOf(it) ==
    IF ~it.ok THEN None
    ELSE IF StartsWithColon(it.bytes) THEN None
    ELSE LET segs == SplitBytes(it.bytes, Semi) IN
         IF Len(segs) >= 2 THEN Some(segs[2]) ELSE None

\* State::default(): three empty maps; the classifier has not started.
EmptyMap == <<>>

\* No entry is being, or has just been, classified.
NoPath == [man |-> "idle", git |-> "idle", cmd |-> "idle", env |-> 0]

ClassifierIdle ==
    /\ man_pages = EmptyMap
    /\ git_subcommands = EmptyMap
    /\ commands = EmptyMap
    /\ entry = None
    /\ n = 0
    /\ taken = NoPath
    /\ counted = 0
    /\ cpc = "fetch"

Init ==
    /\ lines = <<>>
    /\ eof = FALSE
    /\ peeked = None
    /\ item = None
    /\ result = None
    /\ from = <<>>
    /\ out = <<>>
    /\ pc = "start"
    /\ ClassifierIdle

\* main.rs:35-36: self.lines.next() is None: next() returns None and the
\* consumer's for loop ends.
ReadEnd ==
    /\ pc = "start"
    /\ \E x \in Upcoming :
        /\ ~x.some
        /\ LinesNext(x)
        /\ item' = x
    /\ pc' = "done"
    /\ UNCHANGED <<cvars, result, from, out>>

\* main.rs:35-44, 54: an item is consumed and the closure yields None
\* (an Err item, a ':' line, a line without ';'): the loop goes round.
ReadSkip ==
    /\ pc = "start"
    /\ \E x \in Upcoming :
        /\ x.some
        /\ ~StartOf(x.val).some
        /\ LinesNext(x)
        /\ item' = x
    /\ UNCHANGED <<cvars, result, from, out, pc>>

\* main.rs:35-44: an item is consumed and the closure yields Some(result).
ReadStart ==
    /\ pc = "start"
    /\ \E x \in Upcoming :
        /\ x.some
        /\ StartOf(x.val).some
        /\ LinesNext(x)
        /\ item' = x
        /\ result' = StartOf(x.val)
    /\ from' = <<UpcomingIdx>>
    /\ pc' = "append"
    /\ UNCHANGED <<cvars, out>>

\* main.rs:45-50: the peeked item is an Ok line that does not start with
\* ':': self.lines.next() consumes it and its bytes are appended to result.
AppendLine ==
    /\ pc = "append"
    /\ \E x \in Upcoming :
        /\ x.some
        /\ x.val.ok
        /\ ~StartsWithColon(x.val.bytes)
        /\ LinesPeek(x)
        /\ peeked' = None
        /\ result' = Some(result.val \o x.val.bytes)
    /\ from' = Append(from, UpcomingIdx)
    /\ UNCHANGED <<cvars, item, out, pc>>

\* main.rs:45-48, 52: peek() is None (source exhausted) or the peeked line
\* starts with ':' (break): the peeked value stays in the lookahead slot
\* and next() returns Some(result).
AppendStop ==
    /\ pc = "append"
    /\ \E x \in Upcoming :
        /\ \/ ~x.some
           \/ /\ x.some
              /\ x.val.ok
              /\ StartsWithColon(x.val.bytes)
        /\ LinesPeek(x)
        /\ peeked' = Some(x)
    /\ out' = Append(out, [cmd |-> result.val, from |-> from])
    /\ result' = None
    /\ from' = <<>>
    /\ pc' = "start"
    /\ UNCHANGED <<cvars, item>>

\* main.rs:46: next.as_ref().unwrap() on a peeked Err item panics.
AppendPanic ==
    /\ pc = "append"
    /\ \E x \in Upcoming :
        /\ x.some
        /\ ~x.val.ok
        /\ LinesPeek(x)
        /\ peeked' = Some(x)
    /\ pc' = "panic"
    /\ UNCHANGED <<cvars, item, result, from, out>>

Next ==
    \/ ReadEnd
    \/ ReadSkip
    \/ ReadStart
    \/ AppendLine
    \/ AppendStop
    \/ AppendPanic

Spec == Init /\ [][Next]_vars

\* -------------------------------------------------------------- classifier
\* Tokens of the model, as bytes.
TokMan == <<109, 97, 110>>
TokG == <<103>>
TokGit == <<103, 105, 116>>
TokGc == <<103, 99>>
TokGca == <<103, 99, 97>>
TokGa == <<103, 97>>
TokGau == <<103, 97, 117>>
TokCommit == <<99, 111, 109, 109, 105, 116>>
TokAdd == <<97, 100, 100>>
\* "ls": a word that is no command the classifier knows
TokLs == <<108, 115>>
\* "3": a section number
TokThree == <<51>>
\* "A=1": an environment assignment
TokEnv == <<65, Equals, 49>>
\* a single byte 0xFF: never valid UTF-8
TokBad == <<255>>

\* Tokens that stand at the command position of the model's entries, and
\* tokens that stand anywhere.
CmdWords == {TokMan, TokG, TokGit, TokGc, TokGca, TokGa, TokGau}
AnyWords == {TokLs, TokThree, TokEnv, TokBad}

\* The token sequences of the model: up to MaxTokens tokens; a CmdWords
\* token only where nothing but assignments precedes it. The empty sequence
\* is the empty command, which splits into one empty token.
TokenSeqs ==
    UNION {{t \in [1..k -> CmdWords \cup AnyWords] :
              \A i \in 1..k : t[i] \in CmdWords =>
                  \A j \in 1..(i - 1) : t[j] = TokEnv} : k \in 0..MaxTokens}

\* The tokens joined by single spaces: the bytes of a logical command.
RECURSIVE Join(_)
Join(t) ==
    IF Len(t) = 0 THEN <<>>
    ELSE IF Len(t) = 1 THEN t[1]
    ELSE t[1] \o <<Space>> \o Join(Tail(t))

Entries == {Join(t) : t \in TokenSeqs}

\* u8::is_ascii_digit
IsAsciiDigit(b) == b >= 48 /\ b <= 57

\* arg1.iter().all(|x| x.is_ascii_digit()): true of the empty slice.
AllDigits(s) == \A i \in 1..Len(s) : IsAsciiDigit(s[i])

\* icmd.contains(&b'=')
ContainsEquals(s) == \E i \in 1..Len(s) : s[i] = Equals

IsCont(b) == b >= 128 /\ b <= 191

\* core::str::from_utf8's validation: the well-formed byte sequences of
\* the Unicode standard, from position i on.
RECURSIVE ValidUtf8From(_, _)
ValidUtf8From(s, i) ==
    IF i > Len(s) THEN TRUE
    ELSE LET b == s[i]
             has(k) == i + k <= Len(s)
             c(k) == s[i + k]
         IN
         IF b <= 127 THEN ValidUtf8From(s, i + 1)
         ELSE IF b >= 194 /\ b <= 223
              THEN has(1) /\ IsCont(c(1)) /\ ValidUtf8From(s, i + 2)
         ELSE IF b >= 224 /\ b <= 239
              THEN /\ has(2)
                   /\ IsCont(c(1)) /\ IsCont(c(2))
                   /\ (b = 224 => c(1) >= 160)
                   /\ (b = 237 => c(1) <= 159)
                   /\ ValidUtf8From(s, i + 3)
         ELSE IF b >= 240 /\ b <= 244
              THEN /\ has(3)
                   /\ IsCont(c(1)) /\ IsCont(c(2)) /\ IsCont(c(3))
                   /\ (b = 240 => c(1) >= 144)
                   /\ (b = 244 => c(1) <= 143)
                   /\ ValidUtf8From(s, i + 4)
         ELSE FALSE

\* String::from_utf8(bytes): Ok(the string with those bytes) or Err.
FromUtf8(s) ==
    IF ValidUtf8From(s, 1) THEN [ok |-> TRUE, str |-> s] ELSE [ok |-> FALSE]

\* *map.entry(key).or_default() += 1
Incr(m, key) ==
    IF key \in DOMAIN m
    THEN [m EXCEPT ![key] = @ + 1]
    ELSE [k \in DOMAIN m \cup {key} |-> IF k = key THEN 1 ELSE m[k]]

\* it.next() on the split iterator when i - 1 tokens have been taken.
TokAt(toks, i) == IF i <= Len(toks) THEN Some(toks[i]) ELSE None

\* main.rs:68-76: the position of the token `cmd` ends up at: the first
\* token at or after i that holds no '=', or Len(toks) + 1 (cmd = None).
RECURSIVE SkipEnv(_, _)
SkipEnv(toks, i) ==
    IF i > Len(toks) THEN i
    ELSE IF ContainsEquals(toks[i]) THEN SkipEnv(toks, i + 1)
    ELSE i

\* `if` for `while` at main.rs:69: at most one assignment is skipped.
ResolveSkipOne(e) ==
    LET toks == SplitBytes(e, Space)
        i == IF ContainsEquals(toks[1]) THEN 2 ELSE 1
    IN [cmd |-> TokAt(toks, i),
        arg1 |-> TokAt(toks, i + 1),
        arg2 |-> TokAt(toks, i + 2),
        env |-> i - 1]

\* main.rs:67-78: cmd, arg1, arg2 of an entry (env: how many tokens the
\* while loop skipped).
Resolve(e) ==
    LET toks == SplitBytes(e, Space)
        i == SkipEnv(toks, 1)
    IN [cmd |-> TokAt(toks, i),
        arg1 |-> TokAt(toks, i + 1),
        arg2 |-> TokAt(toks, i + 2),
        env |-> i - 1]

\* The section number is not recognised: page is always arg1.
ManClosureNoSection(mp, cmd, arg1, arg2) ==
    IF cmd = Some(TokMan) /\ arg1.some
    THEN LET key == FromUtf8(arg1.val) IN
         IF key.ok
         THEN [t |-> Incr(mp, key.str), br |-> "arg1"]
         ELSE [t |-> mp, br |-> "err"]
    ELSE [t |-> mp, br |-> "none"]

\* main.rs:79-96: the man-page closure: the new man_pages and its path.
ManClosure(mp, cmd, arg1, arg2) ==
    IF cmd = Some(TokMan) /\ arg1.some
    THEN IF AllDigits(arg1.val) /\ ~arg2.some
         THEN [t |-> mp, br |-> "section_only"]
         ELSE LET page == IF AllDigits(arg1.val) THEN arg2.val ELSE arg1.val
                  key == FromUtf8(page)
                  which == IF AllDigits(arg1.val) THEN "arg2" ELSE "arg1"
              IN IF key.ok
                 THEN [t |-> Incr(mp, key.str), br |-> which]
                 ELSE [t |-> mp, br |-> "err"]
    ELSE [t |-> mp, br |-> "none"]

\* The alias arms written like the first arm, (Some(..), Some(_)): an alias
\* without an argument records nothing.
GitClosureAliasNeedsArg(gs, cmd, arg1) ==
    IF cmd \in {Some(TokG), Some(TokGit)} /\ arg1.some
    THEN LET key == FromUtf8(arg1.val) IN
         IF key.ok
         THEN [t |-> Incr(gs, key.str), br |-> "arg1"]
         ELSE [t |-> gs, br |-> "err"]
    ELSE IF cmd \in {Some(TokGc), Some(TokGca)} /\ arg1.some
    THEN [t |-> Incr(gs, TokCommit), br |-> "commit"]
    ELSE IF cmd \in {Some(TokGa), Some(TokGau)} /\ arg1.some
    THEN [t |-> Incr(gs, TokAdd), br |-> "add"]
    ELSE [t |-> gs, br |-> "none"]

\* main.rs:97-121: the git-subcommand closure.
GitClosure(gs, cmd, arg1) ==
    IF cmd \in {Some(TokG), Some(TokGit)} /\ arg1.some
    THEN LET key == FromUtf8(arg1.val) IN
         IF key.ok
         THEN [t |-> Incr(gs, key.str), br |-> "arg1"]
         ELSE [t |-> gs, br |-> "err"]
    ELSE IF cmd \in {Some(TokGc), Some(TokGca)}
    THEN LET key == FromUtf8(TokCommit) IN
         IF key.ok
         THEN [t |-> Incr(gs, key.str), br |-> "commit"]
         ELSE [t |-> gs, br |-> "err"]
    ELSE IF cmd \in {Some(TokGa), Some(TokGau)}
    THEN LET key == FromUtf8(TokAdd) IN
         IF key.ok
         THEN [t |-> Incr(gs, key.str), br |-> "add"]
         ELSE [t |-> gs, br |-> "err"]
    ELSE [t |-> gs, br |-> "none"]

\* String::from_utf8_lossy for String::from_utf8: an undecodable command
\* token is counted under the replacement character U+FFFD.
CmdClosureLossy(cs, cmd) ==
    IF cmd.some
    THEN LET key == FromUtf8(cmd.val) IN
         IF key.ok
         THEN [t |-> Incr(cs, key.str), br |-> "cmd"]
         ELSE [t |-> Incr(cs, <<239, 191, 189>>), br |-> "cmd"]
    ELSE [t |-> cs, br |-> "none"]

\* main.rs:122-132: the command closure.
CmdClosure(cs, cmd) ==
    IF cmd.some
    THEN LET key == FromUtf8(cmd.val) IN
         IF key.ok
         THEN [t |-> Incr(cs, key.str), br |-> "cmd"]
         ELSE [t |-> cs, br |-> "err"]
    ELSE [t |-> cs, br |-> "none"]

\* One fallible closure for the three: the first `?` that fails leaves
\* the rest of the body undone.
ClassifyEntryOneClosure(mp, gs, cs, e) ==
    LET r == Resolve(e)
        m == ManClosure(mp, r.cmd, r.arg1, r.arg2)
        g == IF m.br = "err" THEN [t |-> gs, br |-> "none"]
             ELSE GitClosure(gs, r.cmd, r.arg1)
        c == IF m.br = "err" \/ g.br = "err" THEN [t |-> cs, br |-> "none"]
             ELSE CmdClosure(cs, r.cmd)
    IN [man_pages |-> m.t, git_subcommands |-> g.t, commands |-> c.t,
        taken |-> [man |-> m.br, git |-> g.br, cmd |-> c.br, env |-> r.env]]

\* main.rs:79-132: the three closures run one after the other, each
\* result discarded with .ok(): what the body does to the three tables.
ClassifyEntry(mp, gs, cs, e) ==
    LET r == Resolve(e)
        m == ManClosure(mp, r.cmd, r.arg1, r.arg2)
        g == GitClosure(gs, r.cmd, r.arg1)
        c == CmdClosure(cs, r.cmd)
    IN [man_pages |-> m.t, git_subcommands |-> g.t, commands |-> c.t,
        taken |-> [man |-> m.br, git |-> g.br, cmd |-> c.br, env |-> r.env]]

\* Whether an entry has a command token that is valid UTF-8, said without
\* the code's iterator: some token holds no '=', and the first such token
\* decodes.
NonEnvPositions(toks) == {i \in 1..Len(toks) : Equals \notin Range(toks[i])}
FirstNonEnv(toks) == CHOOSE i \in NonEnvPositions(toks) :
                        \A j \in NonEnvPositions(toks) : i <= j
HasValidCommand(e) ==
    LET toks == SplitBytes(e, Space) IN
    /\ NonEnvPositions(toks) # {}
    /\ ValidUtf8From(toks[FirstNonEnv(toks)], 1)

\* No history file (ZshHistory is not used): the decoder stays as it is.
DecoderIdle ==
    /\ lines = <<>>
    /\ eof = TRUE
    /\ peeked = None
    /\ item = None
    /\ result = None
    /\ from = <<>>
    /\ out = <<>>
    /\ pc = "done"

InitClassify ==
    /\ DecoderIdle
    /\ ClassifierIdle

\* main.rs:66: the for loop pulls the next entry from command_history
\* (any iterator of byte strings).
Fetch ==
    /\ cpc = "fetch"
    /\ n < MaxEntries
    /\ \E e \in Entries : entry' = Some(e)
    /\ n' = n + 1
    /\ taken' = NoPath
    /\ cpc' = "classify"
    /\ UNCHANGED <<dvars, man_pages, git_subcommands, commands, counted>>

\* main.rs:67-132: the loop body on `entry`.
Classify ==
    /\ cpc = "classify"
    /\ LET r == ClassifyEntry(man_pages, git_subcommands, commands, entry.val) IN
       /\ man_pages' = r.man_pages
       /\ git_subcommands' = r.git_subcommands
       /\ commands' = r.commands
       /\ taken' = r.taken
    /\ counted' = counted + (IF HasValidCommand(entry.val) THEN 1 ELSE 0)
    /\ entry' = None
    /\ cpc' = "fetch"
    /\ UNCHANGED <<dvars, n>>

\* main.rs:66, 133-134: command_history yields None: the loop ends.
EndLoop ==
    /\ cpc = "fetch"
    /\ cpc' = "end"
    /\ UNCHANGED <<dvars, man_pages, git_subcommands, commands, entry, n,
                   taken, counted>>

NextClassify ==
    \/ Fetch
    \/ Classify
    \/ EndLoop

SpecClassify == InitClassify /\ [][NextClassify]_vars

\* ------------------------------------------------------ claims: the decoder
\* A raw line that was delivered and starts with ':'.
IsMeta(it) == it.ok /\ StartsWithColon(it.bytes)
HasSemi(b) == \E i \in 1..Len(b) : b[i] = Semi
MetaWithSemi(it) == IsMeta(it) /\ HasSemi(it.bytes)
MetaWithoutSemi(it) == IsMeta(it) /\ ~HasSemi(it.bytes)

\* Everything after the first ';' of a line that holds one.
AfterFirstSemi(b) == SubSeq(b, FindByte(b, Semi, 1) + 1, Len(b))

\* The bytes of the delivered non-metadata lines that follow one another
\* from line i on, up to the next metadata line, failed line or the end.
RECURSIVE ContinuationBytes(_)
ContinuationBytes(i) ==
    IF i > Len(lines) THEN <<>>
    ELSE IF ~lines[i].ok \/ StartsWithColon(lines[i].bytes) THEN <<>>
    ELSE lines[i].bytes \o ContinuationBytes(i + 1)

\* C1: when the decoder has run to the end of the file, every metadata line
\* holding a ';' has produced a logical command that starts at that line
\* and whose bytes are everything after the line's first ';' followed by
\* the bytes of the non-metadata lines right after it, nothing in between.
C1_MetadataPayloadEmitted ==
    pc = "done" =>
        \A i \in 1..Len(lines) :
            MetaWithSemi(lines[i]) =>
                \E k \in 1..Len(out) :
                    /\ out[k].from[1] = i
                    /\ out[k].cmd = AfterFirstSemi(lines[i].bytes)
                                        \o ContinuationBytes(i + 1)

\* C2: a metadata line without ';' contributes to nothing the decoder
\* returns or is accumulating (it neither starts a command nor is appended
\* to one); right after reading such a line the decoder is back at the top
\* of its loop with no command begun, and when the decoder ends the file
\* is exhausted and no line waits in the lookahead.
C2_MetadataWithoutSemiSilent ==
    /\ \A k \in 1..Len(out) : \A j \in 1..Len(out[k].from) :
           ~MetaWithoutSemi(lines[out[k].from[j]])
    /\ \A j \in 1..Len(from) : ~MetaWithoutSemi(lines[from[j]])
    /\ (item.some /\ MetaWithoutSemi(item.val)) => (pc = "start" /\ ~result.some)
    /\ pc = "done" => (eof /\ ~(peeked.some /\ peeked.val.some))

\* A metadata line without ';' was skipped and a later line produced a
\* command: decoding went on after it.
C2_Witness ==
    /\ pc = "done"
    /\ \E i \in 1..Len(lines) :
           /\ MetaWithoutSemi(lines[i])
           /\ \E k \in 1..Len(out) : out[k].from[1] > i

\* C3: every logical command, returned or being accumulated, starts at a
\* metadata line: a non-metadata line that no metadata line introduces
\* never starts a command, so none of its bytes are ever emitted.
C3_OrphanDiscarded ==
    /\ \A k \in 1..Len(out) : IsMeta(lines[out[k].from[1]])
    /\ Len(from) > 0 => IsMeta(lines[from[1]])

\* C9: the decoder never panics, wherever in the stream the line source
\* fails to deliver a line.
C9_NeverPanics == pc # "panic"

\* The positions of the metadata lines holding a ';', in file order.
RECURSIVE MetaWithSemiFrom(_)
MetaWithSemiFrom(i) ==
    IF i > Len(lines) THEN <<>>
    ELSE (IF MetaWithSemi(lines[i]) THEN <<i>> ELSE <<>>)
             \o MetaWithSemiFrom(i + 1)

\* C10: when the decoder has run to the end of the file, the commands it
\* returned are one per metadata line holding a ';', in file order (no
\* metadata line was lost to the lookahead), and every line was consumed.
C10_OneCommandPerMetadataLine ==
    pc = "done" =>
        /\ eof /\ ~(peeked.some /\ peeked.val.some)
        /\ [k \in 1..Len(out) |-> out[k].from[1]] = MetaWithSemiFrom(1)

\* --------------------------------------------------- claims: the classifier
\* The tokens of an entry and its command token, arg1 and arg2, said
\* without the code's iterator: the command token is the first token
\* holding no '=', arg1 and arg2 are the two tokens after it.
TokensOf(e) == SplitBytes(e, Space)
HasCommand(e) == NonEnvPositions(TokensOf(e)) # {}
CommandOf(e) == TokensOf(e)[FirstNonEnv(TokensOf(e))]
HasArg(e, k) == HasCommand(e) /\ FirstNonEnv(TokensOf(e)) + k <= Len(TokensOf(e))
ArgOf(e, k) == TokensOf(e)[FirstNonEnv(TokensOf(e)) + k]
IsValid(tok) == ValidUtf8From(tok, 1)

RECURSIVE SumOver(_, _)
SumOver(m, keys) ==
    IF keys = {} THEN 0
    ELSE LET k == CHOOSE x \in keys : TRUE IN m[k] + SumOver(m, keys \ {k})
\* The sum of all counts of a table.
SumCounts(m) == SumOver(m, DOMAIN m)

\* C4: the counts of state.commands add up to the number of entries
\* classified so far whose command token exists and is valid UTF-8.
C4_CommandCountsSum == SumCounts(commands) = counted

\* Two entries were classified, one of them counted and one not.
C4_Witness ==
    /\ cpc = "fetch"
    /\ n = 2
    /\ counted = 1
    /\ SumCounts(commands) = 1

\* What the claim says `man` does to man_pages, read to the letter: the
\* entry for arg1, or for arg2 when arg1 is all digits, goes up by one.
ManPagesAsClaimed(e) ==
    IF HasCommand(e) /\ CommandOf(e) = TokMan /\ HasArg(e, 1)
    THEN IF AllDigits(ArgOf(e, 1))
         THEN (IF HasArg(e, 2) THEN Incr(man_pages, ArgOf(e, 2)) ELSE man_pages)
         ELSE Incr(man_pages, ArgOf(e, 1))
    ELSE man_pages

\* C5 as stated: for command `man` with arg1 present the loop body raises
\* exactly the man_pages entry for the page (arg1, or arg2 after a section
\* number) by one, and raises none when the section number stands alone.
C5_ManPageAsStated ==
    [][(cpc = "classify" /\ HasCommand(entry.val) /\ CommandOf(entry.val) = TokMan
            /\ HasArg(entry.val, 1))
         => man_pages' = ManPagesAsClaimed(entry.val)]_vars

\* The page `man` looks up: arg1, or arg2 when arg1 is all digits.
HasPage(e) ==
    /\ HasCommand(e) /\ CommandOf(e) = TokMan /\ HasArg(e, 1)
    /\ AllDigits(ArgOf(e, 1)) => HasArg(e, 2)
PageOf(e) == IF AllDigits(ArgOf(e, 1)) THEN ArgOf(e, 2) ELSE ArgOf(e, 1)

\* C5 amended: for command `man` with arg1 present the loop body raises
\* the man_pages entry for the page by one when the page is valid UTF-8,
\* and leaves man_pages as it is when the page is not valid UTF-8 or when
\* arg1 is all digits and arg2 is absent.
C5_ManPageWhenDecodable ==
    [][(cpc = "classify" /\ HasCommand(entry.val) /\ CommandOf(entry.val) = TokMan
            /\ HasArg(entry.val, 1))
         => man_pages' =
                IF HasPage(entry.val) /\ IsValid(PageOf(entry.val))
                THEN Incr(man_pages, PageOf(entry.val))
                ELSE man_pages]_vars

\* `man 3 ls` was classified: the page after the section number is counted
\* and the section number is not.
C5_Witness ==
    /\ taken.man = "arg2"
    /\ TokLs \in DOMAIN man_pages
    /\ TokThree \notin DOMAIN man_pages

\* C6: the loop body acts on the first token holding no '=' as the command
\* and on the two tokens after it as arg1 and arg2: commands goes up at
\* that token (when it decodes) and never gets a key holding '=';
\* git_subcommands goes up at the token after a `g` or `git` command token;
\* man_pages goes up at the second token after a `man` command token whose
\* next token is all digits.
C6_CommandTokenResolution ==
    [][cpc = "classify" =>
        LET e == entry.val IN
        /\ (HasCommand(e) /\ IsValid(CommandOf(e)))
              => commands' = Incr(commands, CommandOf(e))
        /\ ~HasCommand(e) => commands' = commands
        /\ \A key \in DOMAIN commands' : ~ContainsEquals(key)
        /\ (HasCommand(e) /\ CommandOf(e) \in {TokG, TokGit} /\ HasArg(e, 1)
                /\ IsValid(ArgOf(e, 1)))
              => git_subcommands' = Incr(git_subcommands, ArgOf(e, 1))
        /\ (HasCommand(e) /\ CommandOf(e) = TokMan /\ HasArg(e, 2)
                /\ AllDigits(ArgOf(e, 1)) /\ IsValid(ArgOf(e, 2)))
              => man_pages' = Incr(man_pages, ArgOf(e, 2))
      ]_vars

\* An entry with an assignment before `git` or `g` and a subcommand after it
\* was classified: the command and the subcommand are counted.
C6_Witness ==
    /\ taken.env >= 1
    /\ taken.git = "arg1"
    /\ taken.cmd = "cmd"
    /\ \E c \in {TokG, TokGit} : c \in DOMAIN commands
    /\ TokLs \in DOMAIN git_subcommands

\* What the claim says happens to git_subcommands, read to the letter.
GitAsClaimed(e) ==
    IF HasCommand(e) /\ CommandOf(e) \in {TokG, TokGit} /\ HasArg(e, 1)
    THEN Incr(git_subcommands, ArgOf(e, 1))
    ELSE IF HasCommand(e) /\ CommandOf(e) \in {TokGc, TokGca}
    THEN Incr(git_subcommands, TokCommit)
    ELSE IF HasCommand(e) /\ CommandOf(e) \in {TokGa, TokGau}
    THEN Incr(git_subcommands, TokAdd)
    ELSE git_subcommands

\* C7 as stated: the loop body changes git_subcommands by the first case
\* that matches: arg1's entry for `g`/`git` with arg1 present, `commit` for
\* `gc`/`gca`, `add` for `ga`/`gau`, nothing otherwise.
C7_GitSubcommandAsStated ==
    [][cpc = "classify" => git_subcommands' = GitAsClaimed(entry.val)]_vars

\* C7 amended: as stated, except that `g`/`git` with an arg1 that is not
\* valid UTF-8 leaves git_subcommands as it is.
C7_GitSubcommandWhenDecodable ==
    [][cpc = "classify" =>
        LET e == entry.val IN
        git_subcommands' =
            IF HasCommand(e) /\ CommandOf(e) \in {TokG, TokGit} /\ HasArg(e, 1)
                   /\ ~IsValid(ArgOf(e, 1))
            THEN git_subcommands
            ELSE GitAsClaimed(e)
      ]_vars

\* An alias of `git commit` was classified and `commit` alone is counted,
\* once.
C7_Witness ==
    /\ taken.git = "commit"
    /\ git_subcommands = [k \in {TokCommit} |-> 1]

\* C8: an undecodable token costs only its own table its update. `man`
\* with an undecodable page leaves man_pages as it is and still counts the
\* command `man`; `g`/`git` with an undecodable arg1 leaves git_subcommands
\* as it is and still counts the command; an undecodable command token
\* leaves commands as it is; and the loop goes on to the next entry.
C8_ClassificationsIndependent ==
    [][cpc = "classify" =>
        LET e == entry.val IN
        /\ (HasPage(e) /\ ~IsValid(PageOf(e)))
              => /\ man_pages' = man_pages
                 /\ git_subcommands' = git_subcommands
                 /\ commands' = Incr(commands, TokMan)
        /\ (HasCommand(e) /\ CommandOf(e) \in {TokG, TokGit} /\ HasArg(e, 1)
                /\ ~IsValid(ArgOf(e, 1)))
              => /\ git_subcommands' = git_subcommands
                 /\ man_pages' = man_pages
                 /\ commands' = Incr(commands, CommandOf(e))
        /\ (HasCommand(e) /\ ~IsValid(CommandOf(e)))
              => /\ commands' = commands
                 /\ man_pages' = man_pages
                 /\ git_subcommands' = git_subcommands
        /\ cpc' = "fetch"
      ]_vars

\* `man` with an undecodable page was classified: no page is counted, the
\* command is.
C8_Witness ==
    /\ taken.man = "err"
    /\ taken.cmd = "cmd"
    /\ man_pages = EmptyMap
    /\ TokMan \in DOMAIN commands

====
